---- MODULE Spec2Model ----
(***************************************************************************)
(* The Bot lifecycle of src/model/bot.py: one Bot (a Task), the owner      *)
(* thread that calls play()/stop() and the other public mutators, and the  *)
(* BotThread workers the Bot starts.  play() and stop() are split at every *)
(* point where a worker can interleave; the controller calls and the       *)
(* thread operations a call makes are recorded, in order, in trace.        *)
(***************************************************************************)
EXTENDS Integers, Sequences, FiniteSets, TLC

\* ------------------------------------------------------------------ bounds
\* BotThread objects that can exist at once (a dead one that the Bot no longer
\* references is collected and its slot reused).
MaxThreads == 2
\* progress is kept in units of 1/Scale: Scale stands for 1.0.
Scale == 2
\* the most samples a get_is_player_* poll takes within its one-second window
MaxSamples == 3
MaxTaskThreads == 2

\* --------------------------------------------------------------- constants
BotStatus == {"RUNNING", "PAUSED", "STOPPED", "CONFIGURING", "CONFIGURED"}

\* platform.system() values: the two BotThread.stop() handles, and one other.
Platforms == {"Windows", "Linux", "Darwin"}

\* Bot.thread = None
None == 0
\* the owner's call reads no status
NoTest == "-"
\* the owner's call takes no argument
NoArg == <<"-", "">>
Slots == 1..MaxThreads

\* str(e) of the WindowInitializationError raised by win.focus() / win.initialize()
WindowErrors == {"window not found", "window not initialized"}

\* arguments tried for update_progress: below 0, inside [0, 1], above 1
ProgressInputs == (0 - 1)..(Scale + 1)

MsgStarting == "Starting bot..."
MsgNoOptions == "Options not set. Please set options before starting."
MsgAlreadyRunning == "Bot is already running."
MsgStopping == "Stopping script."
MsgAlreadyStopped == "Bot is already stopped."
MsgOptionsOpened == "Options panel opened."
\* printed by BotThread.stop, line 60 and line 65
MsgRaiseFailure == "Exception raise failure"

VARIABLES
    status,       \* Bot.status
    progress,     \* Bot.progress, in units of 1/Scale
    options_set,  \* Bot.options_set
    thread,       \* Bot.thread: None or a slot
    wpc,          \* per slot: where that BotThread is in its life
    pending,      \* per slot: an asynchronous SystemExit is set and not yet raised
    wout,         \* per slot: how the routine of that BotThread ended
    wjoin,        \* per slot: the BotThread whose end that worker waits for in join()
    wprints,      \* per slot: the lines run() of that BotThread has printed
    platform,     \* platform.system()
    pc,           \* the owner thread's position
    call,         \* the owner's current (or last) call
    outcome,      \* how the owner's last call ended
    entry,        \* the status the owner's current play() or stop() found at its
                  \* first test (NoTest for a call that tests no status)
    trace,        \* controller calls and thread operations of the owner's current call
    arg,          \* the argument of the owner's current call (NoArg when it takes none)
    http,         \* the MorgHTTPSocket call in progress (see the telemetry part below)
    tasks         \* two Bot instances and the class they share (see the part on
                  \* instances below)

vars == <<status, progress, options_set, thread, wpc, pending, wout, wjoin, wprints,
          platform, pc, call, outcome, entry, trace, arg, http, tasks>>

botVars == <<status, progress, options_set, thread>>
workerVars == <<wpc, pending, wout, wjoin, wprints>>

Ev(k, v) == <<k, v>>

\* threading.Thread.is_alive(): from start() until run() has ended
IsAlive(t) == wpc[t] \in {"started", "routine", "joining", "finally"}

LiveWorkers == {t \in Slots : IsAlive(t)}

\* a slot a new BotThread can take: no BotThread object holds it
FreeSlot(t) == wpc[t] = "free"

NewSlot == CHOOSE t \in Slots : FreeSlot(t) /\ \A u \in Slots : FreeSlot(u) => t <= u

\* the BotThread object of slot t is still referenced: by Bot.thread after the
\* assignment tr, or by a worker waiting in its join()
Referenced(t, tr, wj) == tr = t \/ \E u \in Slots : wj[u] = t

\* ------------------------------------------------------------ Bot mutators
\* mutant: update_progress clamps from above only
ClampAbove(p) == IF p > Scale THEN Scale ELSE p

\* update_progress: the clamp of lines 199-202
ClampProgress(p) == IF p < 0 THEN 0 ELSE IF p > Scale THEN Scale ELSE p

\* mutant: set_status notifies the controller first and stores the status after
SetStatusNotifiesFirst(s, tr) ==
    /\ status' = s
    /\ trace' = Append(tr, Ev("status", status))

\* set_status(s), lines 212-213, adding to the trace tr: the status is stored,
\* then the controller is notified and reads the stored status
SetStatus(s, tr) ==
    /\ status' = s
    /\ trace' = Append(tr, Ev("status", status'))

\* mutant: reset_progress notifies the controller only when the progress changes
ResetProgressWhenChanged(tr) ==
    /\ progress' = 0
    /\ trace' = IF progress = 0 THEN tr ELSE Append(tr, Ev("progress", progress'))

\* reset_progress(), lines 190-191
ResetProgress(tr) ==
    /\ progress' = 0
    /\ trace' = Append(tr, Ev("progress", progress'))

\* update_progress(p), lines 199-204: clamp, store, then notify
UpdateProgress(p, tr) ==
    /\ progress' = ClampProgress(p)
    /\ trace' = Append(tr, Ev("progress", progress'))

\* mutant: play() also starts from RUNNING
PlayStartsWhenRunning(st) == st \in {"STOPPED", "RUNNING"}

\* mutant: play() has an else in place of its elif
PlayLogsUnlessStopped(st) == st # "STOPPED"

\* play(), line 142 and line 158: the branch taken for a status
PlayStarts(st) == st = "STOPPED"
PlayLogsRunning(st) == st = "RUNNING"

\* mutant: the options gate is missing
OptionsNeverRefused(os) == FALSE

\* play(), line 145: the options gate
OptionsRefused(os) == ~os

\* mutant: play() sets the status CONFIGURED
PlayStatusConfigured == "CONFIGURED"

\* play(), line 154: the status play() sets
PlayStatus == "RUNNING"

\* mutant: stop() runs its stop logic whatever the status
StopAlwaysRuns(st) == TRUE

\* stop(), line 174: stop logic runs unless already stopped
StopRuns(st) == st # "STOPPED"

\* stop(), line 177: the status stop() sets
StopStatus == "STOPPED"

\* BotThread.__get_id: the id of a live thread, None for a dead one
HasId(t) == IsAlive(t)

\* what PyThreadState_SetAsyncExc can return for thread t: the number of thread
\* states it modified, 0 when the thread has no id (no thread matches), else 1,
\* or more than 1 should the id match several thread states
AsyncExcResults(t) == IF HasId(t) THEN {1, 2} ELSE {0}

\* BotThread.stop on thread t when PyThreadState_SetAsyncExc returns res:
\*   "noop"      platform.system() is neither Windows nor Linux: nothing is done
\*   "TypeError" Linux, thread without id: ctypes.c_long(None) raises
\*   "many"      res > 1: the exception is cleared again and the failure printed
\*   "set"       res = 1: the SystemExit is pending in the thread
\*   "zero"      res = 0: nothing was set, and nothing is printed
ForcedStop(t, res) ==
    IF platform \notin {"Windows", "Linux"} THEN "noop"
    ELSE IF platform = "Linux" /\ ~HasId(t) THEN "TypeError"
    ELSE IF res > 1 THEN "many"
    ELSE IF res = 1 THEN "set"
    ELSE "zero"

\* mutant: join() gives up waiting although the thread is alive
JoinTimesOut(t) == TRUE

\* thread.join() returns once the thread is no longer alive
JoinReturns(t) == ~IsAlive(t)

\* ------------------------------------------------------------ MorgHTTPSocket
\* morg_http_client.py, lines 31-34, in the order of self.__dict__ that
\* test_endpoints walks (line 73: all attributes but base_endpoint and timeout)
EndpointOrder == <<"inv", "stats", "equip", "events">>
Endpoints == {EndpointOrder[i] : i \in 1..Len(EndpointOrder)}

\* what requests.get can do: raise (the server is unreachable: ConnectionError;
\* the connection times out: ConnectTimeout; the server accepts the connection
\* and does not answer within self.timeout: ReadTimeout), or hand back a response
\* with a status code and a body
RequestExceptions == {"ConnectionError", "ConnectTimeout", "ReadTimeout"}
StatusCodes == {200, 204, 404, 500}
Bodies == {"json", "garbage"}
Raises(x) == [exc |-> x, code |-> 0, body |-> ""]
Responds(c, b) == [exc |-> "none", code |-> c, body |-> b]
NetOutcomes ==
    {Raises(x) : x \in RequestExceptions}
        \cup {Responds(c, "") : c \in StatusCodes \ {200}}
        \cup {Responds(200, b) : b \in Bodies}

\* line 12: the ConnectionError that __do_get catches is requests.exceptions.ConnectionError,
\* of which ConnectTimeout is a subclass and ReadTimeout (a Timeout) is not
IsConnectionError(x) == x \in {"ConnectionError", "ConnectTimeout"}

MsgUnreachable == "Unable to reach socket"
MsgNotLoggedIn == "Endpoint not available, make sure you are fully logged in, status code: "
MsgBadStatus == "Unable to reach socket, status code: "

\* mutant: the error text names no endpoint
GetErrorWithoutEndpoint(msg, code, endpoint) == [msg |-> msg, code |-> code, endpoint |-> ""]

\* SocketError.get_error, lines 21-22: the message (with the status code the
\* caller formatted into it, 0 for none) followed by the endpoint
GetError(msg, code, endpoint) == [msg |-> msg, code |-> code, endpoint |-> endpoint]
NoText == GetError("", 0, "")

\* how a call ends: it returns a value, or an exception leaves it
Returned(v) == [kind |-> "return", value |-> v, exc |-> "", text |-> NoText]
Raised(x, text) == [kind |-> "raise", value |-> "", exc |-> x, text |-> text]

\* response.json() of the endpoint's data
Json(endpoint) == "json of " \o endpoint

\* __do_get(endpoint), lines 47-64, when requests.get does net
DoGet(endpoint, net) ==
    IF net.exc # "none"
    THEN IF IsConnectionError(net.exc)
         THEN Raised("SocketError", GetError(MsgUnreachable, 0, endpoint))
         ELSE Raised(net.exc, NoText)
    ELSE IF net.code # 200
    THEN IF net.code = 204
         THEN Raised("SocketError", GetError(MsgNotLoggedIn, net.code, endpoint))
         ELSE Raised("SocketError", GetError(MsgBadStatus, net.code, endpoint))
    ELSE IF net.body = "json" THEN Returned(Json(endpoint))
    ELSE Raised("JSONDecodeError", NoText)

\* the getters with one request, and the endpoint each asks
Getters == {"get_hitpoints", "get_run_energy", "get_animation", "get_animation_id",
            "get_skill_level", "get_if_item_in_inv", "get_player_equipment"}
GetterEndpoint(op) ==
    IF op = "get_skill_level" THEN "stats"
    ELSE IF op = "get_if_item_in_inv" THEN "inv"
    ELSE IF op = "get_player_equipment" THEN "equip"
    ELSE "events"

\* a getter, e.g. get_hitpoints, lines 88-95: None for a SocketError, the value
\* read from the data otherwise; any other exception leaves the getter
Getter(op, net) ==
    LET r == DoGet(GetterEndpoint(op), net) IN
    IF r.kind = "raise"
    THEN IF r.exc = "SocketError" THEN Returned("None") ELSE r
    ELSE Returned("value from " \o r.value)

\* test_endpoints, lines 73-80, from the i-th endpoint on, when the requests do nets
RECURSIVE TestEndpoints(_, _)
TestEndpoints(i, nets) ==
    IF i > Len(EndpointOrder) THEN Returned("True")
    ELSE LET r == DoGet(EndpointOrder[i], nets[i]) IN
         IF r.kind = "raise"
         THEN IF r.exc = "SocketError" THEN Returned("False") ELSE r
         ELSE TestEndpoints(i + 1, nets)

\* the number of requests test_endpoints makes from the i-th endpoint on
RECURSIVE RequestsMade(_, _)
RequestsMade(i, nets) ==
    IF i > Len(EndpointOrder) THEN 0
    ELSE IF DoGet(EndpointOrder[i], nets[i]).kind = "raise" THEN 1
    ELSE 1 + RequestsMade(i + 1, nets)

\* the polls, lines 137-172: get_is_player_idle and, standing for the polls of one
\* animation list (lines 156-370), get_is_player_woodcutting
Polls == {"get_is_player_idle", "get_is_player_woodcutting"}

\* data["animation"] and data["animation pose"] of the events endpoint: the idle
\* animation, one of animation_ids.WOODCUTTING, another one; the two idle poses of
\* line 152, another one
Animations == {"IDLE", "WOODCUTTING", "MINING"}
Poses == {808, 813, 819}
NoData == [animation |-> "", pose |-> 0]

\* one sample of a poll: what requests.get does, and the data of a 200 response
SampleOutcomes ==
    {[net |-> n, data |-> NoData] : n \in NetOutcomes \ {Responds(200, "json")}}
        \cup {[net |-> Responds(200, "json"), data |-> [animation |-> a, pose |-> p]] :
                a \in Animations, p \in Poses}

\* lines 152 and 170, negated: the sample shows the activity of the poll
ShowsActivity(op, data) ==
    IF op = "get_is_player_idle"
    THEN ~(data.animation # "IDLE" \/ data.pose \notin {808, 813})
    ELSE ~(data.animation \notin {"WOODCUTTING"})

\* a poll, lines 144-154, from its i-th sample on, when the window has room for
\* Len(samples) samples: None for a SocketError, False for a sample that does not
\* show the activity, True when the window ends
RECURSIVE Poll(_, _, _)
Poll(op, i, samples) ==
    IF i > Len(samples) THEN Returned("True")
    ELSE LET r == DoGet("events", samples[i].net) IN
         IF r.kind = "raise"
         THEN IF r.exc = "SocketError" THEN Returned("None") ELSE r
         ELSE IF ~ShowsActivity(op, samples[i].data) THEN Returned("False")
         ELSE Poll(op, i + 1, samples)

\* the number of samples the poll takes from its i-th sample on
RECURSIVE SamplesTaken(_, _, _)
SamplesTaken(op, i, samples) ==
    IF i > Len(samples) THEN 0
    ELSE IF DoGet("events", samples[i].net).kind = "raise" THEN 1
    ELSE IF ~ShowsActivity(op, samples[i].data) THEN 1
    ELSE 1 + SamplesTaken(op, i + 1, samples)

\* no MorgHTTPSocket call has been made
HttpIdle ==
    [op |-> "none", endpoint |-> "", nets |-> <<>>, samples |-> <<>>, result |-> Returned("")]

\* ------------------------------------------------------------ two instances
\* Two Bot objects, A and B, of one class. status, progress, options_set and
\* thread are attributes of the class (lines 81-84); an instance has none of
\* its own until a method assigns self.<name>. Reading self.<name> finds the
\* instance's attribute, else the class's; assigning self.<name> makes or
\* overwrites the instance's.
Tasks == {"A", "B"}
Attrs == {"status", "progress", "options_set", "thread"}
TaskThreads == 1..MaxTaskThreads

\* lines 81-84
ClassAttrs == [status |-> "STOPPED", progress |-> 0, options_set |-> FALSE, thread |-> None]

\* tk.cls: the class attributes; tk.own[b]: the names in the __dict__ of b;
\* tk.val[b]: their values; tk.alive[t]: BotThread t is alive; tk.made: the
\* BotThreads constructed so far
TasksInit ==
    [cls |-> ClassAttrs,
     own |-> [b \in Tasks |-> {}],
     val |-> [b \in Tasks |-> ClassAttrs],
     alive |-> [t \in TaskThreads |-> FALSE],
     made |-> 0]

\* self.<a> read on instance b, for each a
Self(tk, b) ==
    [status |-> IF "status" \in tk.own[b] THEN tk.val[b].status ELSE tk.cls.status,
     progress |-> IF "progress" \in tk.own[b] THEN tk.val[b].progress ELSE tk.cls.progress,
     options_set |-> IF "options_set" \in tk.own[b] THEN tk.val[b].options_set
                     ELSE tk.cls.options_set,
     thread |-> IF "thread" \in tk.own[b] THEN tk.val[b].thread ELSE tk.cls.thread]

\* mutant: the methods assign the attribute of the class
SetClassAttr(tk, b, a, v) == [tk EXCEPT !.cls[a] = v]

\* self.<a> = v on instance b (lines 155, 190, 203, 212)
SetAttr(tk, b, a, v) == [tk EXCEPT !.own[b] = @ \cup {a}, !.val[b][a] = v]

\* is_alive() of the BotThread that self.thread of b names
HasLiveWorker(tk, b) == Self(tk, b).thread # None /\ tk.alive[Self(tk, b).thread]

\* the calls below change tasks only
TaskFrame == UNCHANGED <<botVars, workerVars, platform, pc, call, outcome, entry, trace,
                         arg, http>>

\* b.set_status(s), line 212
TaskSetStatus(b) ==
    /\ \E s \in BotStatus : tasks' = SetAttr(tasks, b, "status", s)
    /\ TaskFrame

\* b.update_progress(p), line 203
TaskUpdateProgress(b) ==
    /\ \E p \in ProgressInputs : tasks' = SetAttr(tasks, b, "progress", ClampProgress(p))
    /\ TaskFrame

\* b.reset_progress(), line 190
TaskResetProgress(b) ==
    /\ tasks' = SetAttr(tasks, b, "progress", 0)
    /\ TaskFrame

\* b.save_options(options) of a subclass: the options are accepted
TaskSaveOptions(b) ==
    /\ tasks' = SetAttr(tasks, b, "options_set", TRUE)
    /\ TaskFrame

\* b.play(), lines 142-157, when it starts a worker: the status read is
\* STOPPED, the options are set and the window is found (otherwise play()
\* assigns nothing); progress, status and thread are assigned and the new
\* BotThread started
TaskPlay(b) ==
    /\ PlayStarts(Self(tasks, b).status)
    /\ ~OptionsRefused(Self(tasks, b).options_set)
    /\ tasks.made < MaxTaskThreads
    /\ LET t == tasks.made + 1
           reset == SetAttr(tasks, b, "progress", 0)
           running == SetAttr(reset, b, "status", PlayStatus)
           created == SetAttr(running, b, "thread", t)
       IN  tasks' = [created EXCEPT !.alive[t] = TRUE, !.made = t]
    /\ TaskFrame

\* b.stop(), lines 174-177, when it returns: stop logic runs, self.thread is a
\* BotThread, BotThread.stop() does not raise (on Linux it does for a dead
\* thread) and join() has returned, the worker being dead by then, by the
\* SystemExit or by itself; the status is assigned
TaskStop(b) ==
    /\ StopRuns(Self(tasks, b).status)
    /\ Self(tasks, b).thread # None
    /\ ~(platform = "Linux" /\ ~tasks.alive[Self(tasks, b).thread])
    /\ tasks' = SetAttr([tasks EXCEPT !.alive[Self(tasks, b).thread] = FALSE],
                        b, "status", StopStatus)
    /\ TaskFrame

\* lines 38-43: the routine of BotThread t ends by itself and the thread is dead
TaskWorkerEnd(t) ==
    /\ tasks.alive[t]
    /\ tasks' = [tasks EXCEPT !.alive[t] = FALSE]
    /\ TaskFrame

NextTasks ==
    \/ \E b \in Tasks :
        \/ TaskSetStatus(b)
        \/ TaskUpdateProgress(b)
        \/ TaskResetProgress(b)
        \/ TaskSaveOptions(b)
        \/ TaskPlay(b)
        \/ TaskStop(b)
    \/ \E t \in TaskThreads : TaskWorkerEnd(t)

Init ==
    /\ status = "STOPPED"
    /\ progress = 0
    /\ options_set = FALSE
    /\ thread = None
    /\ wpc = [t \in Slots |-> "free"]
    /\ pending = [t \in Slots |-> FALSE]
    /\ wout = [t \in Slots |-> "none"]
    /\ wjoin = [t \in Slots |-> None]
    /\ wprints = [t \in Slots |-> <<>>]
    /\ platform \in Platforms
    /\ pc = "idle"
    /\ call = "none"
    /\ outcome = "none"
    /\ entry = NoTest
    /\ trace = <<>>
    /\ arg = NoArg
    /\ http = HttpIdle
    /\ tasks = TasksInit

\* the owner's call ends
Return(how) == pc' = "idle" /\ outcome' = how

\* ------------------------------------------------------------------ play()
\* lines 142-144: status test, clear_log, log_msg("Starting bot...")
PlayEnter ==
    /\ pc = "idle"
    /\ \E t \in Slots : FreeSlot(t)
    /\ call' = "play"
    /\ outcome' = "none"
    /\ IF PlayStarts(status)
       THEN /\ trace' = <<Ev("clear", ""), Ev("log", MsgStarting)>>
            /\ pc' = "play_options"
       ELSE /\ trace' = <<>>
            /\ pc' = "play_elif"
    /\ entry' = status
    /\ UNCHANGED <<botVars, workerVars, platform, tasks, http>>
    /\ arg' = NoArg

\* lines 158-159: the second status test
PlayElif ==
    /\ pc = "play_elif"
    /\ trace' = IF PlayLogsRunning(status)
                THEN Append(trace, Ev("log", MsgAlreadyRunning))
                ELSE trace
    /\ Return("returned")
    /\ UNCHANGED <<botVars, workerVars, platform, tasks, http, arg, entry, call>>

\* lines 145-147
PlayCheckOptions ==
    /\ pc = "play_options"
    /\ IF OptionsRefused(options_set)
       THEN /\ trace' = Append(trace, Ev("log", MsgNoOptions))
            /\ Return("returned")
       ELSE /\ pc' = "play_window"
            /\ UNCHANGED <<trace, outcome>>
    /\ UNCHANGED <<botVars, workerVars, platform, tasks, http, arg, entry, call>>

\* mutant: the except clause logs the error and falls through (no return)
PlayInitWindowNoReturn ==
    /\ pc = "play_window"
    /\ \E r \in {"ok"} \cup WindowErrors :
        IF r = "ok"
        THEN /\ pc' = "play_reset"
             /\ UNCHANGED <<trace, outcome>>
        ELSE /\ trace' = Append(trace, Ev("log", r))
             /\ pc' = "play_reset"
             /\ UNCHANGED outcome
    /\ UNCHANGED <<botVars, workerVars, platform, tasks, http, arg, entry, call>>

\* lines 148-152: __initialize_window succeeds or raises WindowInitializationError
PlayInitWindow ==
    /\ pc = "play_window"
    /\ \E r \in {"ok"} \cup WindowErrors :
        IF r = "ok"
        THEN /\ pc' = "play_reset"
             /\ UNCHANGED <<trace, outcome>>
        ELSE /\ trace' = Append(trace, Ev("log", r))
             /\ Return("returned")
    /\ UNCHANGED <<botVars, workerVars, platform, tasks, http, arg, entry, call>>

\* mutant: play() zeroes the progress without notifying the controller
PlayResetsSilently ==
    /\ pc = "play_reset"
    /\ progress' = 0
    /\ pc' = "play_status"
    /\ UNCHANGED <<status, options_set, thread, workerVars, platform, tasks, http, arg, entry, call,
                   outcome, trace>>

\* line 153: reset_progress()
PlayResetProgress ==
    /\ pc = "play_reset"
    /\ ResetProgress(trace)
    /\ pc' = "play_status"
    /\ UNCHANGED <<status, options_set, thread, workerVars, platform, tasks, http, arg, entry, call, outcome>>

\* line 154: set_status(BotStatus.RUNNING)
PlaySetStatus ==
    /\ pc = "play_status"
    /\ SetStatus(PlayStatus, trace)
    /\ pc' = "play_create"
    /\ UNCHANGED <<progress, options_set, thread, workerVars, platform, tasks, http, arg, entry, call, outcome>>

\* lines 155-156: self.thread = BotThread(target=self.main_loop)
PlayCreateThread ==
    /\ pc = "play_create"
    /\ thread' = NewSlot
    /\ wpc' = [t \in Slots |->
                IF t = NewSlot THEN "created"
                ELSE IF t = thread /\ wpc[t] = "dead" /\ ~Referenced(t, None, wjoin)
                     THEN "free"
                ELSE wpc[t]]
    /\ wout' = [t \in Slots |-> IF wpc'[t] = "free" THEN "none" ELSE wout[t]]
    /\ wprints' = [t \in Slots |-> IF wpc'[t] = "free" THEN <<>> ELSE wprints[t]]
    /\ UNCHANGED <<pending, wjoin>>
    /\ trace' = Append(trace, Ev("create", ""))
    /\ pc' = "play_start"
    /\ UNCHANGED <<status, progress, options_set, platform, tasks, http, arg, entry, call, outcome>>

\* line 157: self.thread.start()
PlayStartThread ==
    /\ pc = "play_start"
    /\ wpc' = [wpc EXCEPT ![thread] = "started"]
    /\ trace' = Append(trace, Ev("start", ""))
    /\ Return("returned")
    /\ UNCHANGED <<botVars, pending, wout, wjoin, wprints, platform, tasks, http, arg, entry, call>>

\* ------------------------------------------------------------------ stop()
\* lines 173-174 and 178-179
StopEnter ==
    /\ pc = "idle"
    /\ call' = "stop"
    /\ IF StopRuns(status)
       THEN /\ trace' = <<Ev("log", MsgStopping)>>
            /\ pc' = "stop_force"
            /\ outcome' = "none"
       ELSE /\ trace' = <<Ev("log", MsgStopping), Ev("log", MsgAlreadyStopped)>>
            /\ Return("returned")
    /\ entry' = status
    /\ UNCHANGED <<botVars, workerVars, platform, tasks, http>>
    /\ arg' = NoArg

\* line 175: self.thread.stop()
StopForce ==
    /\ pc = "stop_force"
    /\ IF thread = None
       THEN /\ Return("AttributeError")
            /\ UNCHANGED <<trace, pending>>
       ELSE \E res \in AsyncExcResults(thread) :
            LET r == ForcedStop(thread, res) IN
            /\ trace' = IF r = "many"
                        THEN trace \o <<Ev("force", r), Ev("print", MsgRaiseFailure)>>
                        ELSE Append(trace, Ev("force", r))
            /\ pending' = IF r = "set"
                          THEN [pending EXCEPT ![thread] = TRUE]
                          ELSE pending
            /\ IF r = "TypeError"
               THEN Return("TypeError")
               ELSE pc' = "stop_join" /\ UNCHANGED outcome
    /\ UNCHANGED <<botVars, wpc, wout, wjoin, wprints, platform, tasks, http, arg, entry, call>>

\* line 176: self.thread.join(), blocking until the worker is dead
StopJoin ==
    /\ pc = "stop_join"
    /\ JoinReturns(thread)
    /\ trace' = Append(trace, Ev("join", ""))
    /\ pc' = "stop_status"
    /\ UNCHANGED <<botVars, workerVars, platform, tasks, http, arg, entry, call, outcome>>

\* line 177: set_status(BotStatus.STOPPED)
StopSetStatus ==
    /\ pc = "stop_status"
    /\ SetStatus(StopStatus, trace)
    /\ Return("returned")
    /\ UNCHANGED <<progress, options_set, thread, workerVars, platform, tasks, http, arg, entry, call>>

\* ------------------------------------------- other calls on the owner thread
\* set_status(s), lines 212-213
OwnerSetStatus ==
    /\ pc = "idle"
    /\ \E s \in BotStatus :
        /\ arg' = Ev("status", s)
        /\ SetStatus(s, <<>>)
    /\ call' = "set_status"
    /\ outcome' = "returned"
    /\ UNCHANGED <<progress, options_set, thread, workerVars, platform, tasks, http, pc>>
    /\ entry' = NoTest

\* update_progress(p), lines 199-204
OwnerUpdateProgress ==
    /\ pc = "idle"
    /\ \E p \in ProgressInputs :
        /\ arg' = Ev("progress", p)
        /\ UpdateProgress(p, <<>>)
    /\ call' = "update_progress"
    /\ outcome' = "returned"
    /\ UNCHANGED <<status, options_set, thread, workerVars, platform, tasks, http, pc>>
    /\ entry' = NoTest

\* reset_progress(), lines 190-191
OwnerResetProgress ==
    /\ pc = "idle"
    /\ ResetProgress(<<>>)
    /\ call' = "reset_progress"
    /\ outcome' = "returned"
    /\ entry' = NoTest
    /\ arg' = NoArg
    /\ UNCHANGED <<status, options_set, thread, workerVars, platform, tasks, http, pc>>

\* mutant: building the options view marks the options set
GetOptionsViewSetsOptions ==
    /\ pc = "idle"
    /\ options_set' = TRUE
    /\ trace' = <<Ev("clear", ""), Ev("log", MsgOptionsOpened), Ev("create_options", "")>>
    /\ call' = "get_options_view"
    /\ outcome' = "returned"
    /\ entry' = NoTest
    /\ arg' = NoArg
    /\ UNCHANGED <<status, progress, thread, workerVars, platform, tasks, http, pc>>

\* get_options_view(parent), lines 130-135: clear_log, log_msg, create_options,
\* then the view is built from the options builder
GetOptionsView ==
    /\ pc = "idle"
    /\ trace' = <<Ev("clear", ""), Ev("log", MsgOptionsOpened), Ev("create_options", "")>>
    /\ call' = "get_options_view"
    /\ outcome' = "returned"
    /\ entry' = NoTest
    /\ arg' = NoArg
    /\ UNCHANGED <<botVars, workerVars, platform, tasks, http, pc>>

\* save_options(options): the subclass's implementation marks the options set
SaveOptions ==
    /\ pc = "idle"
    /\ ~options_set
    /\ options_set' = TRUE
    /\ call' = "save_options"
    /\ outcome' = "returned"
    /\ trace' = <<>>
    /\ UNCHANGED <<status, progress, thread, workerVars, platform, tasks, http, pc>>
    /\ entry' = NoTest
    /\ arg' = NoArg

\* ------------------------------------------------------------ MorgHTTPSocket calls
\* The socket keeps nothing from one call to the next: each call starts from HttpIdle.
\* __do_get(endpoint), lines 38-64
HttpDoGet ==
    /\ http = HttpIdle
    /\ \E e \in Endpoints, net \in NetOutcomes :
        http' = [op |-> "__do_get", endpoint |-> e, nets |-> <<net>>, samples |-> <<>>,
                 result |-> DoGet(e, net)]
    /\ UNCHANGED <<botVars, workerVars, platform, tasks, pc, call, outcome, entry, trace, arg>>

\* a getter with one request, lines 82-135 and 372-665
HttpGetter ==
    /\ http = HttpIdle
    /\ \E op \in Getters, net \in NetOutcomes :
        http' = [op |-> op, endpoint |-> GetterEndpoint(op), nets |-> <<net>>, samples |-> <<>>,
                 result |-> Getter(op, net)]
    /\ UNCHANGED <<botVars, workerVars, platform, tasks, pc, call, outcome, entry, trace, arg>>

\* test_endpoints(), lines 66-80
HttpTestEndpoints ==
    /\ http = HttpIdle
    /\ \E nets \in [1..Len(EndpointOrder) -> NetOutcomes] :
        LET n == RequestsMade(1, nets) IN
        http' = [op |-> "test_endpoints", endpoint |-> EndpointOrder[n],
                 nets |-> SubSeq(nets, 1, n), samples |-> <<>>,
                 result |-> TestEndpoints(1, nets)]
    /\ UNCHANGED <<botVars, workerVars, platform, tasks, pc, call, outcome, entry, trace, arg>>

\* a get_is_player_* poll, lines 137-172
HttpPoll ==
    /\ http = HttpIdle
    /\ \E op \in Polls, w \in 1..MaxSamples :
        \E samples \in [1..w -> SampleOutcomes] :
            LET n == SamplesTaken(op, 1, samples) IN
            http' = [op |-> op, endpoint |-> "events",
                     nets |-> [i \in 1..n |-> samples[i].net],
                     samples |-> [i \in 1..n |-> samples[i].data],
                     result |-> Poll(op, 1, samples)]
    /\ UNCHANGED <<botVars, workerVars, platform, tasks, pc, call, outcome, entry, trace, arg>>

\* the caller has the result of the call, and the socket is ready for the next
HttpDone ==
    /\ http # HttpIdle
    /\ http' = HttpIdle
    /\ UNCHANGED <<botVars, workerVars, platform, tasks, pc, call, outcome, entry, trace, arg>>

NextHttp == HttpDoGet \/ HttpGetter \/ HttpTestEndpoints \/ HttpPoll \/ HttpDone

SpecHttp == Init /\ [][NextHttp]_vars

SpecTasks == Init /\ [][NextTasks]_vars

\* ------------------------------------------------------------ BotThread.run
\* the lines of run()
MsgThreadStarted == "Thread started."
MsgThreadStopped == "Thread stopped successfully."

\* what the slot of a BotThread that has ended holds: the object stays while
\* it is referenced, and is collected otherwise
Ended(t, wj) == IF Referenced(t, thread, wj) THEN "dead" ELSE "free"

\* lines 39-40: the thread begins run(): print("Thread started."), then the target
WorkerBegin(t) ==
    /\ wpc[t] = "started"
    /\ wpc' = [wpc EXCEPT ![t] = "routine"]
    /\ wprints' = [wprints EXCEPT ![t] = Append(@, MsgThreadStarted)]
    /\ UNCHANGED <<botVars, pending, wout, wjoin, platform, tasks, http, arg, entry, pc, call,
                   outcome, trace>>

\* line 38: a SystemExit set before run() has entered its try statement is
\* raised there (in the thread's bootstrap or at the entry of run()): the
\* thread ends with neither line printed and the target never called
WorkerKilledEarly(t) ==
    /\ wpc[t] = "started"
    /\ pending[t]
    /\ pending' = [pending EXCEPT ![t] = FALSE]
    /\ wpc' = [wpc EXCEPT ![t] = Ended(t, wjoin)]
    /\ UNCHANGED <<botVars, wout, wjoin, wprints, platform, tasks, http, arg, entry, pc, call,
                   outcome, trace>>

\* main_loop calls self.set_status(s) on the worker thread
WorkerSetStatus(t) ==
    /\ wpc[t] = "routine"
    /\ \E s \in BotStatus : status' = s
    /\ UNCHANGED <<progress, options_set, thread, workerVars, platform, tasks, http, arg, entry,
                   pc, call, outcome, trace>>

\* main_loop calls self.update_progress(p) on the worker thread
WorkerUpdateProgress(t) ==
    /\ wpc[t] = "routine"
    /\ \E p \in ProgressInputs : progress' = ClampProgress(p)
    /\ UNCHANGED <<status, options_set, thread, workerVars, platform, tasks, http, arg, entry,
                   pc, call, outcome, trace>>

\* mutant: run() catches the target's error and sets the Bot's status STOPPED
WorkerEndCatches(t) ==
    /\ wpc[t] = "routine"
    /\ \E how \in {"returned", "fault"} :
        /\ wout' = [wout EXCEPT ![t] = "returned"]
        /\ status' = IF how = "fault" THEN "STOPPED" ELSE status
    /\ wpc' = [wpc EXCEPT ![t] = "finally"]
    /\ UNCHANGED <<progress, options_set, thread, pending, wjoin, wprints, platform, tasks, http,
                   arg, entry, pc, call, outcome, trace>>

\* line 41: the target returns, or raises an error of its own
WorkerEnd(t) ==
    /\ wpc[t] = "routine"
    /\ \E how \in {"returned", "fault"} : wout' = [wout EXCEPT ![t] = how]
    /\ wpc' = [wpc EXCEPT ![t] = "finally"]
    /\ UNCHANGED <<botVars, pending, wjoin, wprints, platform, tasks, http, arg, entry, pc, call,
                   outcome, trace>>

\* line 41: the pending SystemExit is raised in the target at an interruptible point
WorkerInterrupted(t) ==
    /\ wpc[t] = "routine"
    /\ pending[t]
    /\ pending' = [pending EXCEPT ![t] = FALSE]
    /\ wout' = [wout EXCEPT ![t] = "exit"]
    /\ wpc' = [wpc EXCEPT ![t] = "finally"]
    /\ UNCHANGED <<botVars, wjoin, wprints, platform, tasks, http, arg, entry, pc, call, outcome,
                   trace>>

\* mutant: the closing line is printed in an else clause, after a normal return only
WorkerFinallyOnReturn(t) ==
    /\ wpc[t] = "finally"
    /\ wpc' = [wpc EXCEPT ![t] = Ended(t, wjoin)]
    /\ wout' = [wout EXCEPT ![t] = IF wpc'[t] = "free" THEN "none" ELSE @]
    /\ wprints' = [wprints EXCEPT ![t] = IF wpc'[t] = "free" THEN <<>>
                                         ELSE IF wout[t] = "returned"
                                              THEN Append(@, MsgThreadStopped)
                                         ELSE @]
    /\ pending' = [pending EXCEPT ![t] = FALSE]
    /\ UNCHANGED wjoin
    /\ UNCHANGED <<botVars, platform, tasks, http, arg, entry, pc, call, outcome, trace>>

\* mutant: the worker's cleanup also sets the Bot's status to STOPPED
WorkerFinallyStops(t) ==
    /\ wpc[t] = "finally"
    /\ wpc' = [wpc EXCEPT ![t] = Ended(t, wjoin)]
    /\ wout' = [wout EXCEPT ![t] = IF wpc'[t] = "free" THEN "none" ELSE @]
    /\ wprints' = [wprints EXCEPT ![t] = IF wpc'[t] = "free" THEN <<>>
                                         ELSE Append(@, MsgThreadStopped)]
    /\ pending' = [pending EXCEPT ![t] = FALSE]
    /\ UNCHANGED wjoin
    /\ status' = "STOPPED"
    /\ UNCHANGED <<progress, options_set, thread, platform, tasks, http, arg, entry, pc, call, outcome, trace>>

\* lines 42-43: print("Thread stopped successfully."), and the thread is dead
WorkerFinally(t) ==
    /\ wpc[t] = "finally"
    /\ wpc' = [wpc EXCEPT ![t] = Ended(t, wjoin)]
    /\ wout' = [wout EXCEPT ![t] = IF wpc'[t] = "free" THEN "none" ELSE @]
    /\ wprints' = [wprints EXCEPT ![t] = IF wpc'[t] = "free" THEN <<>>
                                         ELSE Append(@, MsgThreadStopped)]
    /\ pending' = [pending EXCEPT ![t] = FALSE]
    /\ UNCHANGED wjoin
    /\ UNCHANGED <<botVars, platform, tasks, http, arg, entry, pc, call, outcome, trace>>

\* main_loop calls self.stop() on worker thread t (lines 173-176) and stop logic
\* runs. BotThread.stop() addresses Bot.thread: when that is the calling
\* thread, a SystemExit that was set is raised in it on the return from the
\* ctypes call, and without one join() of the current thread raises
\* RuntimeError, as does join() of a thread that was not started; a TypeError
\* of BotThread.stop() ends the call as well. Otherwise the worker blocks in
\* join() of Bot.thread. (A stop() that finds STOPPED only logs.)
WorkerStop(t) ==
    /\ wpc[t] = "routine"
    /\ StopRuns(status)
    /\ \E res \in AsyncExcResults(thread) :
        LET r == ForcedStop(thread, res) IN
        IF thread = t /\ r = "set"
        THEN /\ wout' = [wout EXCEPT ![t] = "exit"]
             /\ wpc' = [wpc EXCEPT ![t] = "finally"]
             /\ UNCHANGED <<pending, wjoin>>
        ELSE IF thread = t \/ r = "TypeError" \/ wpc[thread] = "created"
        THEN /\ wout' = [wout EXCEPT ![t] = "fault"]
             /\ wpc' = [wpc EXCEPT ![t] = "finally"]
             /\ UNCHANGED <<pending, wjoin>>
        ELSE /\ pending' = IF r = "set" THEN [pending EXCEPT ![thread] = TRUE] ELSE pending
             /\ wpc' = [wpc EXCEPT ![t] = "joining"]
             /\ wjoin' = [wjoin EXCEPT ![t] = thread]
             /\ UNCHANGED wout
    /\ UNCHANGED <<botVars, wprints, platform, tasks, http, arg, entry, pc, call, outcome, trace>>

\* lines 176-177 on worker thread t: join() returns once the thread it waits for
\* is dead, and set_status(BotStatus.STOPPED) follows; main_loop goes on
WorkerJoined(t) ==
    /\ wpc[t] = "joining"
    /\ JoinReturns(wjoin[t])
    /\ status' = StopStatus
    /\ wjoin' = [wjoin EXCEPT ![t] = None]
    /\ wpc' = [u \in Slots |->
                IF u = t THEN "routine"
                ELSE IF u = wjoin[t] /\ wpc[u] = "dead" THEN Ended(u, wjoin')
                ELSE wpc[u]]
    /\ wout' = [u \in Slots |-> IF wpc'[u] = "free" THEN "none" ELSE wout[u]]
    /\ wprints' = [u \in Slots |-> IF wpc'[u] = "free" THEN <<>> ELSE wprints[u]]
    /\ UNCHANGED <<progress, options_set, thread, pending, platform, tasks, http, arg, entry, pc,
                   call, outcome, trace>>

Play ==
    \/ PlayEnter
    \/ PlayElif
    \/ PlayCheckOptions
    \/ PlayInitWindow
    \/ PlayResetProgress
    \/ PlaySetStatus
    \/ PlayCreateThread
    \/ PlayStartThread

Stop ==
    \/ StopEnter
    \/ StopForce
    \/ StopJoin
    \/ StopSetStatus

Worker ==
    \E t \in Slots :
        \/ WorkerBegin(t)
        \/ WorkerKilledEarly(t)
        \/ WorkerSetStatus(t)
        \/ WorkerUpdateProgress(t)
        \/ WorkerEnd(t)
        \/ WorkerInterrupted(t)
        \/ WorkerFinally(t)

Next ==
    \/ Play
    \/ Stop
    \/ OwnerSetStatus
    \/ OwnerUpdateProgress
    \/ OwnerResetProgress
    \/ GetOptionsView
    \/ SaveOptions
    \/ Worker

Spec == Init /\ [][Next]_vars

\* The lifecycle alone: play() and stop() on the owner thread against workers
\* that run, report progress, finish or fault, with no direct set_status call.
WorkerLifecycle ==
    \E t \in Slots :
        \/ WorkerBegin(t)
        \/ WorkerKilledEarly(t)
        \/ WorkerUpdateProgress(t)
        \/ WorkerEnd(t)
        \/ WorkerInterrupted(t)
        \/ WorkerFinally(t)

NextLifecycle ==
    \/ Play
    \/ Stop
    \/ OwnerUpdateProgress
    \/ OwnerResetProgress
    \/ GetOptionsView
    \/ SaveOptions
    \/ WorkerLifecycle

\* SpecLifecycle with the scheduling the interpreter gives: the owner thread goes
\* on when join() can return, a started thread runs, a pending SystemExit is
\* raised in the routine (the forced stop lands) and the finally clause completes;
\* that main_loop ends by itself is not assumed
SpecLifecycleFair ==
    /\ Init /\ [][NextLifecycle]_vars
    /\ WF_vars(StopJoin)
    /\ WF_vars(StopSetStatus)
    /\ \A t \in Slots : WF_vars(WorkerBegin(t) \/ WorkerInterrupted(t) \/ WorkerFinally(t))

SpecLifecycle == Init /\ [][NextLifecycle]_vars

\* Spec with a main_loop that may also call self.stop()
NextWorkerStop ==
    \/ Next
    \/ \E t \in Slots : WorkerStop(t)
    \/ \E t \in Slots : WorkerJoined(t)

SpecWorkerStop == Init /\ [][NextWorkerStop]_vars

TypeOK ==
    /\ status \in BotStatus
    /\ progress \in 0..Scale
    /\ options_set \in BOOLEAN
    /\ thread \in {None} \cup Slots
    /\ wpc \in [Slots -> {"free", "created", "started", "routine", "joining", "finally",
                           "dead"}]
    /\ pending \in [Slots -> BOOLEAN]
    /\ wout \in [Slots -> {"none", "returned", "fault", "exit"}]
    /\ wjoin \in [Slots -> {None} \cup Slots]
    /\ wprints \in [Slots -> {<<>>, <<MsgThreadStarted>>,
                               <<MsgThreadStarted, MsgThreadStopped>>}]
    /\ platform \in Platforms
    /\ entry \in BotStatus \cup {NoTest}
    /\ pc \in {"idle", "play_elif", "play_options", "play_window", "play_reset",
               "play_status", "play_create", "play_start",
               "stop_force", "stop_join", "stop_status"}
    /\ outcome \in {"none", "returned", "AttributeError", "TypeError"}
    /\ http.op \in {"none", "__do_get", "test_endpoints"} \cup Getters \cup Polls
    /\ http.result.kind \in {"return", "raise"}
    /\ tasks.cls = ClassAttrs
    /\ tasks.made \in 0..MaxTaskThreads
    /\ \A b \in Tasks :
        /\ tasks.own[b] \subseteq Attrs
        /\ Self(tasks, b).status \in BotStatus
        /\ Self(tasks, b).progress \in 0..Scale
        /\ Self(tasks, b).options_set \in BOOLEAN
        /\ Self(tasks, b).thread \in {None} \cup 1..tasks.made
    /\ \/ arg = NoArg
       \/ arg[1] = "status" /\ arg[2] \in BotStatus
       \/ arg[1] = "progress" /\ arg[2] \in ProgressInputs

\* ------------------------------------------------------------------ claims
\* positions of the events of kind k in the trace of the current call
At(k) == {i \in 1..Len(trace) : trace[i][1] = k}

\* the messages logged by the current call, in order
IsLog(e) == e[1] = "log"
Logs == SelectSeq(trace, IsLog)

\* C1: during play(), the controller is notified of status Running only after
\* the worker of this play() has been started: every status notification for
\* RUNNING in the trace of play() has a thread start before it.
C1_RunningNotifiedAfterStart ==
    call = "play" =>
        \A i \in At("status") :
            trace[i][2] = "RUNNING" => \E j \in At("start") : j < i

\* C2: in every reachable state of the lifecycle (play(), stop(), workers
\* running, finishing or faulting), status is RUNNING if and only if a worker
\* thread of the Bot is alive.
C2_RunningIffWorkerLive ==
    (status = "RUNNING") <=> (LiveWorkers # {})

\* C3: at most one BotThread of the Bot is alive at any time, whatever the
\* sequence of play(), stop() and set_status() calls and worker steps.
C3_AtMostOneLiveWorker ==
    Cardinality(LiveWorkers) <= 1

\* a step of the owner's play() call
PlayStep == call' = "play" /\ pc' # pc

\* the controller calls and thread operations the step adds to the trace
Emitted == IF pc = "idle" THEN trace' ELSE SubSeq(trace', Len(trace) + 1, Len(trace'))

\* stop() is about to set the status, having logged, requested the forced stop
\* of Bot.thread and joined it
StopLogicRan ==
    /\ call = "stop"
    /\ pc = "stop_status"
    /\ Len(trace) >= 3
    /\ trace[1] = Ev("log", MsgStopping)
    /\ trace[2][1] = "force"
    /\ trace[Len(trace)] = Ev("join", "")
    /\ ~IsAlive(thread)

\* a direct set_status call, from the owner thread or from main_loop
DirectSetStatus == OwnerSetStatus \/ \E t \in Slots : WorkerSetStatus(t)

\* C4 as claimed: every change of status from RUNNING to STOPPED is the last
\* step of stop(), after its log message, forced stop and join; no direct
\* set_status call makes it.
C4_StoppedOnlyByStop ==
    [][(status = "RUNNING" /\ status' = "STOPPED") => StopLogicRan]_vars

\* C4 as amended: every change of status from RUNNING to STOPPED is either the
\* last step of stop(), after its log message, forced stop and join, or a direct
\* set_status(STOPPED) call, which runs none of the stop logic; a worker
\* finishing or faulting never makes it.
C4_StoppedByStopOrSetStatus ==
    [][(status = "RUNNING" /\ status' = "STOPPED") => (StopLogicRan \/ DirectSetStatus)]_vars

\* C4 witness: stop(), called on a running Bot, has logged, force-stopped and
\* joined the worker and is about to take the status from RUNNING to STOPPED.
C4_Witness ==
    StopLogicRan /\ status = "RUNNING" /\ entry = "RUNNING" /\ trace[2][2] = "set"

\* C5: stop() called while status is RUNNING requests the forced stop, then
\* joins, then sets and notifies STOPPED, in that order; once it has returned
\* the status is STOPPED and no BotThread of the Bot is alive.
C5_StopLeavesNoLiveWorker ==
    (call = "stop" /\ entry = "RUNNING" /\ pc = "idle" /\ outcome = "returned") =>
        /\ Len(trace) >= 4
        /\ trace[1] = Ev("log", MsgStopping)
        /\ trace[2][1] = "force"
        /\ trace[Len(trace) - 1] = Ev("join", "")
        /\ trace[Len(trace)] = Ev("status", "STOPPED")
        /\ At("status") = {Len(trace)}
        /\ status = "STOPPED"
        /\ LiveWorkers = {}

\* C6: a step of play() taken while options_set is false creates and starts no
\* worker, leaves status, progress and Bot.thread as they are, never gets past
\* the options gate, and calls the controller only to clear the log or log.
C6_PlayRefusedWithoutOptions ==
    [][(PlayStep /\ ~options_set) =>
        /\ status' = status
        /\ progress' = progress
        /\ thread' = thread
        /\ wpc' = wpc
        /\ pc' \in {"idle", "play_elif", "play_options"}
        /\ \A i \in 1..Len(Emitted) : Emitted[i][1] \in {"clear", "log"}]_vars

\* C6 witness: play() has returned on a stopped Bot without options, having
\* cleared the log and logged twice, with a non-zero progress left in place.
C6_Witness ==
    /\ call = "play" /\ pc = "idle" /\ outcome = "returned"
    /\ ~options_set
    /\ entry = "STOPPED" /\ status = "STOPPED"
    /\ progress = Scale
    /\ thread = None
    /\ trace = <<Ev("clear", ""), Ev("log", MsgStarting), Ev("log", MsgNoOptions)>>

\* C7: a step of play() that finds status RUNNING at its status test changes
\* neither status, progress, Bot.thread nor any BotThread; the first test logs
\* nothing and the second logs "Bot is already running." once and returns.
C7_PlayWhileRunningOnlyLogs ==
    [][(PlayStep /\ status = "RUNNING" /\ pc \in {"idle", "play_elif"}) =>
        /\ UNCHANGED <<status, progress, options_set, thread, wpc, pending, wout>>
        /\ IF pc = "idle"
           THEN pc' = "play_elif" /\ trace' = <<>>
           ELSE /\ pc' = "idle"
                /\ outcome' = "returned"
                /\ trace' = <<Ev("log", MsgAlreadyRunning)>>]_vars

\* C7 witness: play() has returned on a running Bot whose one worker is alive,
\* with the single log message as its trace.
C7_Witness ==
    /\ call = "play" /\ pc = "idle" /\ outcome = "returned"
    /\ entry = "RUNNING" /\ status = "RUNNING"
    /\ thread # None /\ IsAlive(thread) /\ LiveWorkers = {thread}
    /\ trace = <<Ev("log", MsgAlreadyRunning)>>

\* C8: stop() called while status is CONFIGURING or CONFIGURED completes (it
\* returns rather than raising) and ends by setting status STOPPED.
C8_StopFromConfiguringCompletes ==
    (call = "stop" /\ pc = "idle" /\ entry \in {"CONFIGURING", "CONFIGURED"}) =>
        /\ outcome = "returned"
        /\ trace[Len(trace)] = Ev("status", "STOPPED")

\* C9 as claimed: stop() called while status is STOPPED returns at once, with
\* no forced stop, join or status notification, and exactly one log message,
\* the "already stopped" one.
C9_StopWhenStoppedLogsOnce ==
    (call = "stop" /\ entry = "STOPPED") =>
        /\ pc = "idle" /\ outcome = "returned"
        /\ At("force") = {} /\ At("join") = {} /\ At("status") = {}
        /\ Logs = <<Ev("log", MsgAlreadyStopped)>>

\* C9 as amended: stop() called while status is STOPPED returns at once, with
\* no forced stop, join or status notification and the status, progress and
\* workers unchanged, and records exactly two log messages: "Stopping script."
\* and then "Bot is already stopped.".
C9_StopWhenStoppedLogsTwice ==
    /\ [](call = "stop" /\ entry = "STOPPED" =>
            /\ pc = "idle" /\ outcome = "returned"
            /\ trace = <<Ev("log", MsgStopping), Ev("log", MsgAlreadyStopped)>>)
    /\ [][(StopEnter /\ status = "STOPPED") =>
            UNCHANGED <<status, progress, options_set, thread, wpc, pending, wout>>]_vars

\* C9 witness: stop() has returned on a Bot whose status is STOPPED although a
\* worker it could have stopped is alive.
C9_Witness ==
    /\ call = "stop" /\ entry = "STOPPED" /\ pc = "idle"
    /\ status = "STOPPED"
    /\ thread # None /\ IsAlive(thread)
    /\ Len(trace) = 2

\* the current play() has logged a WindowInitializationError
WindowFailed ==
    call = "play" /\ \E i \in At("log") : trace[i][2] \in WindowErrors

\* C10 as claimed: when window initialization fails in play(), play() returns
\* with no progress or status notification and no worker created, and exactly
\* one log message, the failure reason, is recorded for that play().
C10_WindowFailureLogsOnce ==
    WindowFailed =>
        /\ pc = "idle" /\ outcome = "returned"
        /\ At("progress") = {} /\ At("status") = {} /\ At("create") = {}
        /\ Len(Logs) = 1 /\ Logs[1][2] \in WindowErrors

\* C10 as amended: when window initialization fails in play(), play() returns
\* with status, progress and Bot.thread untouched and no worker created, and
\* exactly two log messages are recorded for that play(): "Starting bot..."
\* and then the failure reason.
C10_WindowFailureLogsTwice ==
    /\ [](WindowFailed =>
            /\ pc = "idle" /\ outcome = "returned"
            /\ Len(trace) = 3
            /\ trace[1] = Ev("clear", "")
            /\ trace[2] = Ev("log", MsgStarting)
            /\ trace[3][1] = "log" /\ trace[3][2] \in WindowErrors)
    /\ [][(pc = "play_window" /\ pc' = "idle") =>
            UNCHANGED <<status, progress, options_set, thread, wpc, pending, wout>>]_vars

\* C10 witness: play() has returned after a window failure on a stopped Bot
\* that never had a worker, with a non-zero progress left in place.
C10_Witness ==
    /\ WindowFailed /\ pc = "idle"
    /\ options_set /\ entry = "STOPPED" /\ status = "STOPPED"
    /\ progress = Scale
    /\ thread = None

\* the controller notifications of the current call, in order
IsNotification(e) == e[1] \in {"clear", "log", "progress", "status"}
Notifications == SelectSeq(trace, IsNotification)

\* play() has returned after starting the worker: it found STOPPED, the options
\* set and the window
PlaySucceeded ==
    call = "play" /\ pc = "idle" /\ outcome = "returned" /\ At("start") # {}

\* C11: a successful play() notifies the controller, in this order, of the log
\* clear, of at least one log message, of one progress reset with progress 0 and
\* of one status change to RUNNING; no status notification of play() comes before
\* its progress notification.
C11_PlayNotificationOrder ==
    /\ PlaySucceeded =>
        /\ Len(Notifications) >= 4
        /\ Notifications[1] = Ev("clear", "")
        /\ \A i \in 2..(Len(Notifications) - 2) : Notifications[i][1] = "log"
        /\ Notifications[Len(Notifications) - 1] = Ev("progress", 0)
        /\ Notifications[Len(Notifications)] = Ev("status", "RUNNING")
    /\ call = "play" =>
        \A i \in At("status") : \E j \in At("progress") : j < i

\* C11 witness: play() has returned with the whole sequence of a successful
\* start behind it.
C11_Witness ==
    /\ PlaySucceeded
    /\ entry = "STOPPED" /\ status = "RUNNING"
    /\ trace = <<Ev("clear", ""), Ev("log", MsgStarting), Ev("progress", 0),
                 Ev("status", "RUNNING"), Ev("create", ""), Ev("start", "")>>

\* C12: across any number of start/stop cycles, a play() that starts the worker
\* (from STOPPED) leaves status RUNNING, progress 0 and a newly created, live
\* worker, and a stop() called after it (finding RUNNING) returns only with that
\* worker joined and dead and with status STOPPED.
C12_ReusableAcrossCycles ==
    /\ [][PlayStartThread =>
            /\ entry = "STOPPED"
            /\ status' = "RUNNING" /\ progress' = 0
            /\ wpc[thread] = "created" /\ IsAlive(thread)']_vars
    /\ []((call = "stop" /\ pc = "idle" /\ entry = "RUNNING") =>
            /\ outcome = "returned"
            /\ At("join") # {}
            /\ status = "STOPPED"
            /\ ~IsAlive(thread))

C14_ResetProgressNotifiesOnce ==
    [][(OwnerResetProgress \/ PlayResetProgress) =>
        /\ progress' = 0
        /\ Emitted = <<Ev("progress", 0)>>]_vars

\* C14 witness: reset_progress() has returned with progress 0 and its single
\* notification.
C14_Witness ==
    /\ call = "reset_progress" /\ outcome = "returned"
    /\ progress = 0
    /\ trace = <<Ev("progress", 0)>>

C16_OptionsViewKeepsOptionsUnset ==
    /\ ~options_set
    /\ [][GetOptionsView =>
            /\ trace' = <<Ev("clear", ""), Ev("log", MsgOptionsOpened),
                          Ev("create_options", "")>>
            /\ UNCHANGED <<botVars, workerVars>>]_vars
    /\ [][options_set' # options_set => SaveOptions]_vars
    /\ [](~options_set => (thread = None /\ \A t \in Slots : FreeSlot(t)))

\* C16 witness: get_options_view has returned on a Bot whose options are still
\* not set and which has no worker.
C16_Witness ==
    /\ call = "get_options_view" /\ outcome = "returned"
    /\ ~options_set
    /\ thread = None
    /\ trace = <<Ev("clear", ""), Ev("log", MsgOptionsOpened), Ev("create_options", "")>>

\* the forced stop of the current stop() call failed: PyThreadState_SetAsyncExc
\* matched no thread (also when the call raised for want of a thread id) or
\* more than one
ForcedStopFailed(i) == trace[i][1] = "force" /\ trace[i][2] \in {"zero", "many", "TypeError"}

\* C17: when the forced stop fails, because no thread or more than one matched
\* the id, BotThread.stop() prints the failure, raises nothing and leaves no
\* exception pending in the thread, and Bot.stop() goes on to join().
C17_ForcedStopFailureLogged ==
    \A i \in 1..Len(trace) :
        ForcedStopFailed(i) =>
            /\ outcome # "TypeError"
            /\ i < Len(trace) /\ trace[i + 1] = Ev("print", MsgRaiseFailure)
            /\ ~pending[thread]
            /\ pc = "idle" => At("join") # {}

\* C18: a stop() that found RUNNING stays in join() for as long as the worker is
\* alive (join has no timeout), so it sets STOPPED and returns only with the
\* worker dead, and not at all while the worker lives on; and once the forced
\* stop is pending in the worker, stop() does return.
C18_StopWaitsForWorker ==
    /\ [][(pc = "stop_join" /\ IsAlive(thread)) =>
            (pc' = "stop_join" /\ (call' = "stop") /\ At("status")' = {})]_vars
    /\ []((call = "stop" /\ entry = "RUNNING" /\
            (pc = "stop_status" \/ (pc = "idle" /\ outcome = "returned"))) =>
                ~IsAlive(thread))
    /\ (call = "stop" /\ pc = "stop_join" /\ pending[thread]) ~>
            (call = "stop" /\ pc = "idle" /\ outcome = "returned" /\ status = "STOPPED")

\* C18 witness: on a platform BotThread.stop() does nothing for, stop() is
\* waiting in join() for a worker that is alive with no exception pending, and
\* status is still RUNNING.
C18_Witness ==
    /\ call = "stop" /\ pc = "stop_join" /\ entry = "RUNNING"
    /\ platform = "Darwin"
    /\ trace = <<Ev("log", MsgStopping), Ev("force", "noop")>>
    /\ IsAlive(thread) /\ ~pending[thread]
    /\ status = "RUNNING"

\* the last request of the current MorgHTTPSocket call
LastNet == http.nets[Len(http.nets)]

\* C19: __do_get returns the JSON body only for status 200; for status 204 it
\* raises a SocketError with the "fully logged in" message, for any other status
\* but 200 a SocketError, for a connection failure a SocketError; and the text
\* of each of these errors names the endpoint that was asked.
C19_DoGetStatusHandling ==
    http.op = "__do_get" =>
        LET r == http.result IN
        /\ r.kind = "return" =>
            (LastNet.exc = "none" /\ LastNet.code = 200 /\ r.value = Json(http.endpoint))
        /\ (LastNet.exc = "none" /\ LastNet.code = 204) =>
            /\ r.kind = "raise" /\ r.exc = "SocketError"
            /\ r.text.msg = MsgNotLoggedIn /\ r.text.code = 204
            /\ r.text.endpoint = http.endpoint
        /\ (LastNet.exc = "none" /\ LastNet.code \notin {200, 204}) =>
            /\ r.kind = "raise" /\ r.exc = "SocketError"
            /\ r.text.code = LastNet.code
            /\ r.text.endpoint = http.endpoint
        /\ LastNet.exc \in {"ConnectionError", "ConnectTimeout"} =>
            /\ r.kind = "raise" /\ r.exc = "SocketError"
            /\ r.text.msg = MsgUnreachable
            /\ r.text.endpoint = http.endpoint

\* C19 witness: __do_get("stats") has met status 204 and raised the SocketError
\* that names "stats".
C19_Witness ==
    /\ http.op = "__do_get" /\ http.endpoint = "stats"
    /\ LastNet = Responds(204, "")
    /\ http.result = Raised("SocketError", [msg |-> MsgNotLoggedIn, code |-> 204,
                                            endpoint |-> "stats"])

\* the last request failed in one of the ways the provider fails: unreachable,
\* timed out, or a status other than 200
ProviderFailed ==
    \/ LastNet.exc \in {"ConnectionError", "ConnectTimeout", "ReadTimeout"}
    \/ LastNet.exc = "none" /\ LastNet.code # 200

\* C20: when its request fails (server unreachable, request timed out, status
\* 204 or another status but 200), a getter returns None and test_endpoints
\* returns False; none of them raises.
C20_GettersNeverRaise ==
    /\ (http.op \in Getters /\ ProviderFailed) => http.result = Returned("None")
    /\ (http.op = "test_endpoints" /\ ProviderFailed) => http.result = Returned("False")

\* C21: a step that is not a direct set_status call, and so every step of
\* play(), stop(), get_options_view(), reset_progress() and update_progress(),
\* leaves the status as it is or makes it STOPPED or RUNNING; with the initial
\* STOPPED, only set_status brings a Bot to PAUSED, CONFIGURING or CONFIGURED.
C21_OnlySetStatusLeavesCore ==
    [][~DirectSetStatus => (status' = status \/ status' \in {"STOPPED", "RUNNING"})]_vars

\* C21 witness: stop() has taken a Bot that set_status had paused back to
\* STOPPED.
C21_Witness ==
    /\ call = "stop" /\ pc = "idle" /\ outcome = "returned"
    /\ entry = "PAUSED"
    /\ status = "STOPPED"

\* the Bot's worker is dead because main_loop returned or raised, and the
\* status is still RUNNING
DeadByItself ==
    /\ thread # None
    /\ wpc[thread] = "dead" /\ wout[thread] \in {"returned", "fault"}
    /\ status = "RUNNING"

SampleAnswered(i) ==
    http.nets[i].exc = "none" /\ http.nets[i].code = 200 /\ http.nets[i].body = "json"

\* the i-th request of the current poll failed: unreachable, timed out, or a
\* status other than 200
SampleFailed(i) ==
    \/ http.nets[i].exc \in {"ConnectionError", "ConnectTimeout", "ReadTimeout"}
    \/ http.nets[i].exc = "none" /\ http.nets[i].code # 200

\* C23: a get_is_player_* poll samples the events endpoint; every sample before
\* its last was answered and showed the activity (so none is taken after one
\* that did not); it returns None when the last request failed, False when the
\* last sample does not show the activity, and True only when all its samples
\* showed it.
C23_PollResult ==
    http.op \in Polls =>
        LET n == Len(http.nets) IN
        /\ http.endpoint = "events" /\ n >= 1
        /\ \A i \in 1..(n - 1) :
            SampleAnswered(i) /\ ShowsActivity(http.op, http.samples[i])
        /\ SampleFailed(n) => http.result = Returned("None")
        /\ (SampleAnswered(n) /\ ~ShowsActivity(http.op, http.samples[n])) =>
            http.result = Returned("False")
        /\ http.result = Returned("True") =>
            \A i \in 1..n : SampleAnswered(i) /\ ShowsActivity(http.op, http.samples[i])

\* C24: a step of play() that finds status PAUSED, CONFIGURING or CONFIGURED at
\* its status test changes neither status, progress, options_set, Bot.thread nor
\* any BotThread and makes no controller call: the first test goes on to the
\* second, and the second returns, with nothing logged, cleared or notified.
C24_PlayInOtherStatusDoesNothing ==
    [][(PlayStep /\ status \in {"PAUSED", "CONFIGURING", "CONFIGURED"}
                 /\ pc \in {"idle", "play_elif"}) =>
        /\ UNCHANGED <<botVars, workerVars>>
        /\ trace' = <<>>
        /\ IF pc = "idle"
           THEN pc' = "play_elif"
           ELSE pc' = "idle" /\ outcome' = "returned"]_vars

\* C24 witness: play() has returned on a paused Bot with a live worker, having
\* made no call at all.
C24_Witness ==
    /\ call = "play" /\ pc = "idle" /\ outcome = "returned"
    /\ entry = "PAUSED" /\ status = "PAUSED"
    /\ thread # None /\ IsAlive(thread)
    /\ trace = <<>>

\* the forced stop of the current stop() call found no thread id: the worker
\* was dead
ForcedStopFoundNoThread ==
    \E i \in At("force") : trace[i][2] \in {"zero", "TypeError"}

\* C25: when the Bot's worker is dead at stop()'s forced stop, BotThread.stop()
\* raises nothing and stop() goes on to join(), which returns at once; and
\* such a stop() that found RUNNING ends returned, with status STOPPED.
C25_StopAfterWorkerDied ==
    /\ [][(StopForce /\ thread # None /\ wpc[thread] = "dead") =>
            (pc' = "stop_join" /\ outcome' = "none" /\ JoinReturns(thread)')]_vars
    /\ []((call = "stop" /\ pc = "idle" /\ entry = "RUNNING" /\ ForcedStopFoundNoThread) =>
            (outcome = "returned" /\ status = "STOPPED"))

\* C26: a stop() that main_loop itself issues, on a worker thread, while the
\* status is RUNNING never reaches the status change: the call ends by an
\* exception on the calling thread (the SystemExit it set for itself, or the
\* error of joining itself), which ends with the status still RUNNING.
C26_WorkerStopEndsByException ==
    [][\A t \in Slots :
        (WorkerStop(t) /\ status = "RUNNING") =>
            /\ wpc'[t] = "finally"
            /\ wout'[t] \in {"exit", "fault"}
            /\ status' = "RUNNING"]_vars

\* the ways the routine of a BotThread ends: it returns, an error leaves it, or
\* the injected SystemExit does
RoutineEnds == {"returned", "fault", "exit"}

\* C28: the lines of run() bracket the routine on every path: while the routine
\* runs, and when it has ended by return, error or SystemExit, 'Thread
\* started.' is the one line printed; the finally clause then prints 'Thread
\* stopped successfully.' once and leaves the way the routine ended as it is
\* (the error or SystemExit goes on out of run()); a thread that is dead after
\* its routine ran has printed the two lines, in this order, and nothing else.
C28_MessagesBracketRoutine ==
    /\ [](\A t \in Slots :
            /\ wpc[t] \in {"routine", "joining"} =>
                    wprints[t] = <<MsgThreadStarted>> /\ wout[t] = "none"
            /\ wpc[t] = "finally" =>
                    wprints[t] = <<MsgThreadStarted>> /\ wout[t] \in RoutineEnds
            /\ (wpc[t] = "dead" /\ wout[t] # "none") =>
                    /\ wprints[t] = <<MsgThreadStarted, MsgThreadStopped>>
                    /\ wout[t] \in RoutineEnds)
    /\ [][\A t \in Slots :
            (wpc[t] = "finally" /\ wpc'[t] = "dead") =>
                /\ wprints'[t] = Append(wprints[t], MsgThreadStopped)
                /\ wout'[t] = wout[t]]_vars

\* a force-stopped worker is dead: its routine began after the first line and
\* the SystemExit left run() after the second
C28_Witness ==
    \E t \in Slots :
        /\ wpc[t] = "dead"
        /\ wout[t] = "exit"
        /\ wprints[t] = <<MsgThreadStarted, MsgThreadStopped>>

\* the step is a call of play(), stop(), set_status(), update_progress() or
\* reset_progress() on instance a
CalledOn(a) ==
    \/ TaskPlay(a)
    \/ TaskStop(a)
    \/ TaskSetStatus(a)
    \/ TaskUpdateProgress(a)
    \/ TaskResetProgress(a)

\* what instance b shows: its four attributes, and whether its worker is alive
TaskView(b) == <<Self(tasks, b), HasLiveWorker(tasks, b)>>

\* C27: instances are isolated although status, progress, options_set and
\* thread are class attributes: a call of play(), stop(), set_status(),
\* update_progress() or reset_progress() on instance A leaves the status,
\* progress, options_set, thread and worker of instance B as they were; and
\* two instances never name the same BotThread.
C27_TasksIsolated ==
    /\ [][CalledOn("A") => TaskView("B")' = TaskView("B")]_vars
    /\ [](\A a, b \in Tasks :
            (a # b /\ Self(tasks, a).thread # None) =>
                Self(tasks, a).thread # Self(tasks, b).thread)

\* A and B each hold a live worker, and calls on A have left B at the values
\* its own play() gave it
C27_Witness ==
    /\ HasLiveWorker(tasks, "A") /\ HasLiveWorker(tasks, "B")
    /\ Self(tasks, "A").status = "PAUSED" /\ Self(tasks, "A").progress = Scale
    /\ Self(tasks, "B").status = "RUNNING" /\ Self(tasks, "B").progress = 0

====
